---- MODULE Spec2Model ----
(***************************************************************************)
(* SC3KLinuxDemangle (src/src/main.cpp): the symbol-line transformation    *)
(* pipeline.  A std::string is a sequence of one-character strings, with   *)
(* 0-based positions as in the C++ code.                                    *)
(***************************************************************************)
EXTENDS Integers, Sequences, FiniteSets, TLC

VARIABLES
    pc,                 \* control position of the program
    overwriteInputFile, \* main: the output goes to a temporary file first
    copied,             \* main: copy_file(outputFile, inputFile) was done
    good,               \* in.good()
    consumed,           \* the lines std::getline has returned so far
    line,               \* the line of the current loop iteration
    mangledLine,        \* the argument of the last GetDemangledLine call
    lineIndex,
    functionNameStart,
    isGZUnknownClass,
    out,                \* the lines written to the output stream
    what,               \* e.what() of the exception in flight
    console,            \* what main wrote to std::cout
    exitCode,           \* the value main returned
    demangled,          \* normalizer: the string cplus_demangle returned
    str,                \* normalizer: the string being rewritten
    item,               \* normalizer: index into ParameterSubstitutions
    start_pos,          \* normalizer: DoFunctionParameterSubstitution's cursor
    replaced,           \* normalizer: the replacement the last iteration made
    pass,               \* normalizer: 1, or 2 when re-run on its own result
    firstResult         \* normalizer: the result of the first run

vars == <<pc, overwriteInputFile, copied, good, consumed, line, mangledLine,
          lineIndex, functionNameStart, isGZUnknownClass, out, what, console,
          exitCode, demangled, str, item, start_pos, replaced, pass, firstResult>>

fileVars == <<overwriteInputFile, copied, good, consumed, lineIndex,
              functionNameStart, isGZUnknownClass, out, console, exitCode>>

normVars == <<demangled, str, item, start_pos, replaced, pass, firstResult>>

----------------------------------------------------------------------------
(* Bounds of the model. *)

\* The lines one input file may hold.
MaxLines == 4

\* The parameters one generated signature may have.
MaxParams == 2

\* The characters that may follow "__thunk_" or "virtual " in a generated line.
MaxTail == 5

----------------------------------------------------------------------------
(* std::string *)

\* std::string::npos
NPOS == -1

\* The terminator std::string::operator[] yields at index size().
NUL == "NUL"

\* What a read past the terminator may find.
JunkChars == {NUL, "x"}

\* No replacement was made.
None == [in |-> << >>, at |-> NPOS, from |-> << >>]

\* str.find(from, start): the first position >= start where from occurs.
Find(s, from, start) ==
    LET hits == {p \in start..(Len(s) - Len(from)) :
                    SubSeq(s, p + 1, p + Len(from)) = from}
    IN  IF hits = {} THEN NPOS
        ELSE CHOOSE p \in hits : \A q \in hits : p <= q

\* str.find(ch, start) for a single character.
FindChar(s, ch, start) == Find(s, <<ch>>, start)

\* str[i]: the terminator at size(), anything (junk) beyond it.
CharAt(s, i, junk) ==
    IF i < Len(s) THEN s[i + 1]
    ELSE IF i = Len(s) THEN NUL
    ELSE junk

\* str.replace(p, n, to)
Replace(s, p, n, to) ==
    SubSeq(s, 1, p) \o to \o SubSeq(s, p + n + 1, Len(s))

\* str.starts_with(prefix)
StartsWith(s, prefix) ==
    /\ Len(s) >= Len(prefix)
    /\ SubSeq(s, 1, Len(prefix)) = prefix

\* str.substr(p) for p <= size()
Substr(s, p) == SubSeq(s, p + 1, Len(s))

\* str.substr(p, n)
SubstrN(s, p, n) == SubSeq(s, p + 1, p + n)

----------------------------------------------------------------------------
(* Type normalizer *)

ParameterSubstitutions == <<
    <<<<" ","&">>, <<"&">>>>,
    <<<<" ","*">>, <<"*">>>>,
    <<<<" ","*","*">>, <<"*","*">>>>,
    <<<<"u","n","s","i","g","n","e","d"," ","c","h","a","r">>, <<"u","i","n","t","8","_","t">>>>,
    <<<<"u","n","s","i","g","n","e","d"," ","s","h","o","r","t">>, <<"u","i","n","t","1","6","_","t">>>>,
    <<<<"u","n","s","i","g","n","e","d"," ","i","n","t">>, <<"u","i","n","t","3","2","_","t">>>>,
    <<<<"u","n","s","i","g","n","e","d"," ","l","o","n","g">>, <<"u","i","n","t","3","2","_","t">>>>,
    <<<<"u","n","s","i","g","n","e","d"," ","l","o","n","g"," ","l","o","n","g">>, <<"u","i","n","t","6","4","_","t">>>>,
    <<<<"c","h","a","r">>, <<"i","n","t","8","_","t">>>>,
    <<<<"s","h","o","r","t">>, <<"i","n","t","1","6","_","t">>>>,
    <<<<"i","n","t">>, <<"i","n","t","3","2","_","t">>>>,
    <<<<"l","o","n","g">>, <<"i","n","t","3","2","_","t">>>>,
    <<<<"l","o","n","g"," ","l","o","n","g">>, <<"i","n","t","6","4","_","t">>>> >>

NumSubstitutions == Len(ParameterSubstitutions)

\* A changed whole-word test: every match is replaced.
IsWholeWord_Unchecked(s, from, p, junk) == TRUE

\* The test of lines 86-97: the match at p (start_pos) is replaced.
IsWholeWord(s, from, p, junk) ==
    /\ p > 0
    /\ LET previous == s[p]
           next == CharAt(s, p + Len(from) + 1, junk)
       IN  /\ (previous = " " \/ previous = "(" \/ from[1] = " ")
           /\ (next = "," \/ next = ")" \/ next = " " \/ next = NUL)

\* One iteration of the while loop, for a match found at p: the string after it.
ScanIteration(s, from, to, p, junk) ==
    IF IsWholeWord(s, from, p, junk)
    THEN Replace(s, p, Len(from), to)
    ELSE s

RECURSIVE ScanFrom(_, _, _, _, _)
ScanFrom(s, from, to, start, junk) ==
    LET p == Find(s, from, start)
    IN  IF p = NPOS THEN s
        ELSE ScanFrom(ScanIteration(s, from, to, p, junk), from, to,
                      p + Len(to), junk)

DoFunctionParameterSubstitution(s, from, to, junk) ==
    ScanFrom(s, from, to, 0, junk)

RECURSIVE ApplySubstitutions(_, _, _)
ApplySubstitutions(s, i, junk) ==
    IF i > NumSubstitutions THEN s
    ELSE ApplySubstitutions(
             DoFunctionParameterSubstitution(s, ParameterSubstitutions[i][1],
                                             ParameterSubstitutions[i][2], junk),
             i + 1, junk)

----------------------------------------------------------------------------
(* The signatures the demangler is given to return: Name(Type, Type) [const] *)

SignatureNames == { <<"c","A",":",":","S","e","t">>, <<"c","A",":",":","P","r","i","n","t">> }

ParameterTypes == { <<"i","n","t">>, <<"c","h","a","r"," ","*">>, <<"v","o","i","d"," ","*","*">>, <<"u","n","s","i","g","n","e","d"," ","l","o","n","g">>, <<"l","o","n","g"," ","l","o","n","g">>,
                    <<"c","h","a","r"," ","c","o","n","s","t"," ","*">>, <<"i","n","t","A">>, <<"u","n","s","i","g","n","e","d"," ","c","h","a","r">>, <<"c","A"," ","&">>,
                    <<"u","n","s","i","g","n","e","d"," ","l","o","n","g"," ","l","o","n","g">> }

ParameterLists ==
    UNION { [1..n -> ParameterTypes] : n \in 0..MaxParams }

RECURSIVE JoinParameters(_)
JoinParameters(ps) ==
    IF Len(ps) = 0 THEN <<"v","o","i","d">>
    ELSE IF Len(ps) = 1 THEN ps[1]
    ELSE ps[1] \o <<","," ">> \o JoinParameters(Tail(ps))

Signatures ==
    { n \o <<"(">> \o JoinParameters(ps) \o <<")">> \o c :
        n \in SignatureNames, ps \in ParameterLists, c \in { << >>, <<" ","c","o","n","s","t">> } }

----------------------------------------------------------------------------
(* GetDemangledLine's loop over ParameterSubstitutions, one while-iteration *)
(* of DoFunctionParameterSubstitution at a time.                            *)

IdleFile ==
    /\ overwriteInputFile = FALSE
    /\ copied = FALSE
    /\ good = FALSE
    /\ consumed = << >>
    /\ lineIndex = 0
    /\ functionNameStart = 0
    /\ isGZUnknownClass = FALSE
    /\ out = << >>
    /\ what = ""
    /\ console = << >>
    /\ exitCode = NPOS

IdleNormalizer ==
    /\ demangled = << >>
    /\ str = << >>
    /\ item = 1
    /\ start_pos = 0
    /\ replaced = None
    /\ pass = 1
    /\ firstResult = << >>

InitNormalize ==
    /\ IdleFile
    /\ line = << >>
    /\ mangledLine = << >>
    /\ pc = "normalize"
    /\ demangled \in Signatures
    /\ str = demangled
    /\ item = 1
    /\ start_pos = 0
    /\ replaced = None
    /\ pass = 1
    /\ firstResult = << >>

\* The loop condition found a match: lines 84-103.
ScanMatch ==
    /\ pc = "normalize"
    /\ item <= NumSubstitutions
    /\ LET from == ParameterSubstitutions[item][1]
           to == ParameterSubstitutions[item][2]
           p == Find(str, from, start_pos)
       IN  /\ p # NPOS
           /\ \E junk \in JunkChars :
                /\ str' = ScanIteration(str, from, to, p, junk)
                /\ replaced' = IF IsWholeWord(str, from, p, junk)
                               THEN [in |-> str, at |-> p, from |-> from]
                               ELSE None
           /\ start_pos' = p + Len(to)
    /\ UNCHANGED <<pc, item, pass, firstResult, demangled, line, mangledLine,
                   what>>
    /\ UNCHANGED fileVars

\* The loop condition found nothing: the next item of the range-for.
ScanEnd ==
    /\ pc = "normalize"
    /\ item <= NumSubstitutions
    /\ Find(str, ParameterSubstitutions[item][1], start_pos) = NPOS
    /\ item' = item + 1
    /\ start_pos' = 0
    /\ replaced' = None
    /\ UNCHANGED <<pc, str, pass, firstResult, demangled, line, mangledLine,
                   what>>
    /\ UNCHANGED fileVars

\* return result; the result is then normalized once more.
ReturnResult ==
    /\ pc = "normalize"
    /\ item = NumSubstitutions + 1
    /\ pass = 1
    /\ firstResult' = str
    /\ pass' = 2
    /\ item' = 1
    /\ UNCHANGED <<pc, str, start_pos, replaced, demangled, line, mangledLine,
                   what>>
    /\ UNCHANGED fileVars

ReturnSecondResult ==
    /\ pc = "normalize"
    /\ item = NumSubstitutions + 1
    /\ pass = 2
    /\ pc' = "normalized"
    /\ UNCHANGED <<str, item, start_pos, replaced, pass, firstResult, demangled,
                   line, mangledLine, what>>
    /\ UNCHANGED fileVars

NextNormalize == ScanMatch \/ ScanEnd \/ ReturnResult \/ ReturnSecondResult

SpecNormalize == InitNormalize /\ [][NextNormalize]_vars

----------------------------------------------------------------------------
(* Line classifier: DemangleInputFile lines 143-178 *)

ThunkPrefix == <<"_","_","t","h","u","n","k","_">>

VirtualFunctionPrototypePrefix == <<"v","i","r","t","u","a","l"," ">>

Classified(ident) == [threw |-> FALSE, what |-> "", ident |-> ident]

Malformed(message) == [threw |-> TRUE, what |-> message, ident |-> << >>]

\* A changed thunk branch: line.erase(0, thunkPrefixEnd).
ClassifyThunk_KeepsUnderscore(l) ==
    LET thunkPrefixEnd == FindChar(l, "_", Len(ThunkPrefix) + 1)
    IN  IF thunkPrefixEnd = NPOS
        THEN Malformed("Failed to find the end of the thunk prefix.")
        ELSE Classified(Substr(l, thunkPrefixEnd))

\* The thunk branch: __thunk_<unique number>_<function name>.
ClassifyThunk(l) ==
    LET thunkPrefixEnd == FindChar(l, "_", Len(ThunkPrefix) + 1)
    IN  IF thunkPrefixEnd = NPOS
        THEN Malformed("Failed to find the end of the thunk prefix.")
        ELSE Classified(Substr(l, thunkPrefixEnd + 1))

\* The prototype branch: virtual <return type> <mangled name>(<parameters>).
ClassifyVirtual(l) ==
    LET functionReturnTypeEnd ==
            FindChar(l, " ", Len(VirtualFunctionPrototypePrefix) + 1)
        mangledNameStart == functionReturnTypeEnd + 1
        mangledNameEnd == FindChar(l, "(", mangledNameStart)
    IN  IF functionReturnTypeEnd = NPOS
        THEN Malformed("Failed to find the end of the virtual function return type.")
        ELSE IF mangledNameEnd = NPOS
        THEN Malformed("Failed to find the end of the virtual function prototype prefix.")
        ELSE Classified(SubstrN(l, mangledNameStart,
                                mangledNameEnd - mangledNameStart))

\* What a non-blank line hands to GetDemangledLine, or the exception thrown.
ClassifyLine(l) ==
    IF StartsWith(l, ThunkPrefix) THEN ClassifyThunk(l)
    ELSE IF StartsWith(l, VirtualFunctionPrototypePrefix) THEN ClassifyVirtual(l)
    ELSE Classified(l)

----------------------------------------------------------------------------
(* The classifier alone, on every line made of a prefix and a short tail. *)

TailAlphabet == {"4", "_", "A", " ", "("}

Tails == UNION { [1..n -> TailAlphabet] : n \in 0..MaxTail }

ClassifierLines ==
    { prefix \o t :
        prefix \in {ThunkPrefix, VirtualFunctionPrototypePrefix, << >>},
        t \in Tails } \ { << >> }

InitClassify ==
    /\ IdleFile
    /\ IdleNormalizer
    /\ pc = "classify"
    /\ line \in ClassifierLines
    /\ mangledLine = << >>

ClassifyOk ==
    /\ pc = "classify"
    /\ ~ClassifyLine(line).threw
    /\ mangledLine' = ClassifyLine(line).ident
    /\ pc' = "classified"
    /\ UNCHANGED <<line, what>>
    /\ UNCHANGED fileVars
    /\ UNCHANGED normVars

ClassifyThrow ==
    /\ pc = "classify"
    /\ ClassifyLine(line).threw
    /\ what' = ClassifyLine(line).what
    /\ pc' = "threw"
    /\ UNCHANGED <<line, mangledLine>>
    /\ UNCHANGED fileVars
    /\ UNCHANGED normVars

NextClassify == ClassifyOk \/ ClassifyThrow

SpecClassify == InitClassify /\ [][NextClassify]_vars

----------------------------------------------------------------------------
(* Name demangler: cplus_demangle(mangledLine, DMGL_PARAMS | DMGL_ANSI) *)

\* The null pointer cplus_demangle returns for a name it cannot demangle.
NULL == <<"nullptr">>

DemanglerTable == {
    <<<<"A","C","6","c","S","C","3","A","p","p","1","4","Q","u","e","r","y","I","n","t","e","r","f","a","c","e","F","U","l","P","P","v">>,
      <<"c","S","C","3","A","p","p",":",":","Q","u","e","r","y","I","n","t","e","r","f","a","c","e","(","u","n","s","i","g","n","e","d"," ","l","o","n","g",","," ","v","o","i","d"," ","*","*",")">>>>,
    <<<<"A","C","6","c","R","Z","A","p","p","1","4","Q","u","e","r","y","I","n","t","e","r","f","a","c","e","F","U","l","P","P","v">>,
      <<"c","R","Z","A","p","p",":",":","Q","u","e","r","y","I","n","t","e","r","f","a","c","e","(","u","n","s","i","g","n","e","d"," ","l","o","n","g",","," ","v","o","i","d"," ","*","*",")">>>>,
    <<<<"A","C","3","A","p","p","1","4","Q","u","e","r","y","I","n","t","e","r","f","a","c","e","F","U","l","P","P","v">>,
      <<"A","p","p",":",":","Q","u","e","r","y","I","n","t","e","r","f","a","c","e","(","u","n","s","i","g","n","e","d"," ","l","o","n","g",","," ","v","o","i","d"," ","*","*",")">>>>,
    <<<<"A","C","6","c","S","C","3","A","p","p","6","A","d","d","R","e","f","F","v">>, <<"c","S","C","3","A","p","p",":",":","A","d","d","R","e","f","(","v","o","i","d",")">>>>,
    <<<<"A","C","6","c","S","C","3","A","p","p","4","I","n","i","t","F","i">>, <<"c","S","C","3","A","p","p",":",":","I","n","i","t","(","i","n","t",")">>>>,
    <<<<"A","F","1","f","F","v">>, <<"f","(","v","o","i","d",")">>>> }

cplus_demangle(mangled) ==
    IF \E row \in DemanglerTable : row[1] = mangled
    THEN (CHOOSE row \in DemanglerTable : row[1] = mangled)[2]
    ELSE NULL

\* The lines an input file is made of.
InputLines == {
    << >>,
    <<"A","C","6","c","S","C","3","A","p","p","1","4","Q","u","e","r","y","I","n","t","e","r","f","a","c","e","F","U","l","P","P","v">>,
    <<"v","i","r","t","u","a","l"," ","b","o","o","l"," ","A","C","6","c","R","Z","A","p","p","1","4","Q","u","e","r","y","I","n","t","e","r","f","a","c","e","F","U","l","P","P","v","(","u","n","s","i","g","n","e","d"," ","l","o","n","g",","," ","v","o","i","d"," ","*","*",")">>,
    <<"A","C","3","A","p","p","1","4","Q","u","e","r","y","I","n","t","e","r","f","a","c","e","F","U","l","P","P","v">>,
    <<"_","_","t","h","u","n","k","_","4","_","A","C","6","c","S","C","3","A","p","p","6","A","d","d","R","e","f","F","v">>,
    <<"A","C","6","c","S","C","3","A","p","p","4","I","n","i","t","F","i">>,
    <<"A","F","1","f","F","v">>,
    <<"_","_","t","h","u","n","k","_","4">>,
    <<"g","a","r","b","a","g","e">> }

MangledLines ==
    { ClassifyLine(l).ident : l \in { x \in InputLines : ~ClassifyLine(x).threw } }

\* GetDemangledLine for a name the demangler accepts, computed once per name.
DemangledLines ==
    [m \in { x \in MangledLines : cplus_demangle(x) # NULL }, junk \in JunkChars |->
        ApplySubstitutions(cplus_demangle(m), 1, junk)]

GetDemangledLine(mangled, junk) == DemangledLines[mangled, junk]

----------------------------------------------------------------------------
(* Class assembler: DemangleInputFile lines 129-243 *)

QueryInterfaceSignature == <<"Q","u","e","r","y","I","n","t","e","r","f","a","c","e","(","u","i","n","t","3","2","_","t",","," ","v","o","i","d","*","*",")">>

\* result.find_first_of("::"): the first character that is a ':'.
FindFirstOf(s, chars) ==
    LET hits == {p \in 0..(Len(s) - 1) : s[p + 1] \in chars}
    IN  IF hits = {} THEN NPOS
        ELSE CHOOSE p \in hits : \A q \in hits : p <= q

\* A changed interface name: every class name gets "cI" for its first letter.
InterfaceClassName_AlwaysInsertsI(className) ==
    IF Len(className) > 0 /\ className[1] = "c"
    THEN Replace(className, 0, 1, <<"c","I">>)
    ELSE className

\* Lines 198-215: the class name in its interface form.
InterfaceClassName(className) ==
    IF Len(className) > 0 /\ className[1] = "c"
    THEN IF StartsWith(className, <<"c","R","Z">>)
         THEN Replace(className, 0, 3, <<"c","I","G","Z">>)
         ELSE Replace(className, 0, 1, <<"c","I">>)
    ELSE className

\* Lines 217-220.
UnknownInterfaceHeader(className) == <<
    <<"#","i","n","c","l","u","d","e"," ","\"","c","I","G","Z","U","n","k","n","o","w","n",".","h","\"">>,
    << >>,
    <<"c","l","a","s","s"," ">> \o InterfaceClassName(className) \o <<" ",":"," ","p","u","b","l","i","c"," ","c","I","G","Z","U","n","k","n","o","w","n">>,
    <<"{">>,
    <<"p","u","b","l","i","c",":">> >>

\* Lines 227-229.
ClassHeader(className) == << <<"c","l","a","s","s"," ">> \o className, <<"{">>, <<"p","u","b","l","i","c",":">> >>

\* Line 239.
MemberDeclaration(result, from) ==
    <<" "," "," "," ","v","i","r","t","u","a","l"," ","v","o","i","d","*"," ">> \o Substr(result, from) \o <<" ","="," ","0",";">>

\* std::getline returned l; hitEof tells whether it reached the end of the file.
GetLine(l, hitEof) ==
    /\ Len(consumed) < MaxLines
    /\ hitEof \/ Len(consumed) + 1 < MaxLines
    /\ consumed' = Append(consumed, l)
    /\ line' = l
    /\ good' = ~hitEof

\* The line reaches GetDemangledLine and the demangler accepts it.
Demangles(l) ==
    /\ l # << >>
    /\ ~ClassifyLine(l).threw
    /\ cplus_demangle(ClassifyLine(l).ident) # NULL

\* Lines 137-141: a blank line; the continue runs the loop's lineIndex++.
SkipBlankLine ==
    /\ pc = "loop" /\ good
    /\ \E hitEof \in BOOLEAN :
         /\ GetLine(<< >>, hitEof)
         /\ lineIndex' = lineIndex + 1
    /\ UNCHANGED <<pc, overwriteInputFile, copied, mangledLine, functionNameStart,
                   isGZUnknownClass, out, what, console, exitCode>>
    /\ UNCHANGED normVars

\* Lines 150-153, 164-167, 172-175: the prefix cannot be parsed.
ThrowMalformedLine ==
    /\ pc = "loop" /\ good
    /\ \E l \in InputLines \ {<< >>}, hitEof \in BOOLEAN :
         /\ ClassifyLine(l).threw
         /\ GetLine(l, hitEof)
         /\ what' = ClassifyLine(l).what
    /\ pc' = "catch"
    /\ UNCHANGED <<overwriteInputFile, copied, mangledLine, lineIndex,
                   functionNameStart, isGZUnknownClass, out, console, exitCode>>
    /\ UNCHANGED normVars

\* Lines 109-111: cplus_demangle returns a null pointer and std::string is
\* constructed from it, which is undefined: the constructor throws
\* std::logic_error, or the read of the null pointer ends the process.
DemangleFails ==
    /\ pc = "loop" /\ good
    /\ \E l \in InputLines \ {<< >>}, hitEof \in BOOLEAN :
         /\ ~ClassifyLine(l).threw
         /\ cplus_demangle(ClassifyLine(l).ident) = NULL
         /\ GetLine(l, hitEof)
         /\ mangledLine' = ClassifyLine(l).ident
    /\ \/ /\ pc' = "catch"
          /\ what' = "basic_string: construction from null is not valid"
       \/ /\ pc' = "crashed"
          /\ what' = "SIGSEGV"
    /\ UNCHANGED <<overwriteInputFile, copied, lineIndex, functionNameStart,
                   isGZUnknownClass, out, console, exitCode>>
    /\ UNCHANGED normVars

\* Lines 183-189 and 239: the first line has no ':'; only its member is written.
FirstLineWithoutClass ==
    /\ pc = "loop" /\ good
    /\ lineIndex = 0
    /\ \E l \in InputLines, hitEof \in BOOLEAN, junk \in JunkChars :
         /\ Demangles(l)
         /\ LET result == GetDemangledLine(ClassifyLine(l).ident, junk)
            IN  /\ FindFirstOf(result, {":"}) = NPOS
                /\ functionNameStart <= Len(result)
                /\ out' = Append(out, MemberDeclaration(result, functionNameStart))
         /\ GetLine(l, hitEof)
         /\ mangledLine' = ClassifyLine(l).ident
    /\ lineIndex' = lineIndex + 1
    /\ UNCHANGED <<pc, overwriteInputFile, copied, functionNameStart,
                   isGZUnknownClass, what, console, exitCode>>
    /\ UNCHANGED normVars

\* Lines 183-224: the first line is <Class>::QueryInterface(uint32_t, void**).
FirstLineUnknownInterface ==
    /\ pc = "loop" /\ good
    /\ lineIndex = 0
    /\ \E l \in InputLines, hitEof \in BOOLEAN, junk \in JunkChars :
         /\ Demangles(l)
         /\ LET result == GetDemangledLine(ClassifyLine(l).ident, junk)
                index == FindFirstOf(result, {":"})
            IN  /\ index # NPOS
                /\ index + 2 <= Len(result)
                /\ Substr(result, index + 2) = QueryInterfaceSignature
                /\ functionNameStart' = index + 2
                /\ out' = out \o UnknownInterfaceHeader(SubstrN(result, 0, index))
         /\ GetLine(l, hitEof)
         /\ mangledLine' = ClassifyLine(l).ident
    /\ isGZUnknownClass' = TRUE
    /\ lineIndex' = lineIndex + 1
    /\ UNCHANGED <<pc, overwriteInputFile, copied, what, console, exitCode>>
    /\ UNCHANGED normVars

\* Lines 183-195, 225-230 and 239: the first line names another method.
FirstLineClass ==
    /\ pc = "loop" /\ good
    /\ lineIndex = 0
    /\ \E l \in InputLines, hitEof \in BOOLEAN, junk \in JunkChars :
         /\ Demangles(l)
         /\ LET result == GetDemangledLine(ClassifyLine(l).ident, junk)
                index == FindFirstOf(result, {":"})
            IN  /\ index # NPOS
                /\ index + 2 <= Len(result)
                /\ Substr(result, index + 2) # QueryInterfaceSignature
                /\ functionNameStart' = index + 2
                /\ out' = out \o ClassHeader(SubstrN(result, 0, index))
                               \o << MemberDeclaration(result, index + 2) >>
         /\ GetLine(l, hitEof)
         /\ mangledLine' = ClassifyLine(l).ident
    /\ isGZUnknownClass' = FALSE
    /\ lineIndex' = lineIndex + 1
    /\ UNCHANGED <<pc, overwriteInputFile, copied, what, console, exitCode>>
    /\ UNCHANGED normVars

\* Lines 233-237: AddRef and Release are not written.
SkipUnknownInterfaceMember ==
    /\ pc = "loop" /\ good
    /\ lineIndex # 0 /\ lineIndex < 3 /\ isGZUnknownClass
    /\ \E l \in InputLines, hitEof \in BOOLEAN :
         /\ Demangles(l)
         /\ GetLine(l, hitEof)
         /\ mangledLine' = ClassifyLine(l).ident
    /\ lineIndex' = lineIndex + 1
    /\ UNCHANGED <<pc, overwriteInputFile, copied, functionNameStart,
                   isGZUnknownClass, out, what, console, exitCode>>
    /\ UNCHANGED normVars

\* Line 239 for a later line.
WriteMember ==
    /\ pc = "loop" /\ good
    /\ lineIndex # 0 /\ ~(lineIndex < 3 /\ isGZUnknownClass)
    /\ \E l \in InputLines, hitEof \in BOOLEAN, junk \in JunkChars :
         /\ Demangles(l)
         /\ LET result == GetDemangledLine(ClassifyLine(l).ident, junk)
            IN  /\ functionNameStart <= Len(result)
                /\ out' = Append(out, MemberDeclaration(result, functionNameStart))
         /\ GetLine(l, hitEof)
         /\ mangledLine' = ClassifyLine(l).ident
    /\ lineIndex' = lineIndex + 1
    /\ UNCHANGED <<pc, overwriteInputFile, copied, functionNameStart,
                   isGZUnknownClass, what, console, exitCode>>
    /\ UNCHANGED normVars

\* Lines 192 and 239: std::string_view::substr(pos) with pos > size() throws
\* std::out_of_range.
ThrowOutOfRange ==
    /\ pc = "loop" /\ good
    /\ \E l \in InputLines, hitEof \in BOOLEAN, junk \in JunkChars :
         /\ Demangles(l)
         /\ LET result == GetDemangledLine(ClassifyLine(l).ident, junk)
                index == FindFirstOf(result, {":"})
            IN  \/ /\ lineIndex = 0
                   /\ index # NPOS
                   /\ index + 2 > Len(result)
                \/ /\ lineIndex # 0 /\ ~(lineIndex < 3 /\ isGZUnknownClass)
                   /\ functionNameStart > Len(result)
         /\ GetLine(l, hitEof)
         /\ mangledLine' = ClassifyLine(l).ident
    /\ pc' = "catch"
    /\ what' = "basic_string_view::substr"
    /\ UNCHANGED <<overwriteInputFile, copied, lineIndex, functionNameStart,
                   isGZUnknownClass, out, console, exitCode>>
    /\ UNCHANGED normVars

\* Line 242: in.good() is false; the closing brace ends the file.
EndOfInput ==
    /\ pc = "loop" /\ ~good
    /\ out' = Append(out, <<"}",";">>)
    /\ pc' = "return"
    /\ UNCHANGED <<overwriteInputFile, copied, good, consumed, line, mangledLine,
                   lineIndex, functionNameStart, isGZUnknownClass, what, console,
                   exitCode>>
    /\ UNCHANGED normVars

----------------------------------------------------------------------------
(* main: lines 276-321 *)

UsageMessage == "Usage SC3KLinuxDemangle input.txt [output.txt]"

\* The values of nargs the model runs main with.
ArgumentCounts == 1..4

\* Lines 278-282.
Usage ==
    /\ pc = "main"
    /\ \E nargs \in ArgumentCounts :
         /\ (nargs < 2 \/ nargs > 3)
         /\ console' = Append(console, UsageMessage)
    /\ exitCode' = 1
    /\ pc' = "exit"
    /\ UNCHANGED <<overwriteInputFile, copied, good, consumed, line, mangledLine,
                   lineIndex, functionNameStart, isGZUnknownClass, out, what>>
    /\ UNCHANGED normVars

\* Lines 284-307 and 126-130: the paths are chosen and the streams are opened.
Start ==
    /\ pc = "main"
    /\ \E nargs \in ArgumentCounts, samePath \in BOOLEAN, opened \in BOOLEAN :
         /\ ~(nargs < 2 \/ nargs > 3)
         /\ overwriteInputFile' = IF nargs = 3 THEN samePath ELSE TRUE
         /\ good' = opened
    /\ pc' = "loop"
    /\ UNCHANGED <<copied, consumed, line, mangledLine, lineIndex,
                   functionNameStart, isGZUnknownClass, out, what, console,
                   exitCode>>
    /\ UNCHANGED normVars

\* Lines 309-314 and 320.
Return ==
    /\ pc = "return"
    /\ copied' = overwriteInputFile
    /\ exitCode' = 0
    /\ pc' = "exit"
    /\ UNCHANGED <<overwriteInputFile, good, consumed, line, mangledLine,
                   lineIndex, functionNameStart, isGZUnknownClass, out, what,
                   console>>
    /\ UNCHANGED normVars

\* Lines 315-320: the handler prints e.what() and main returns 0.
Catch ==
    /\ pc = "catch"
    /\ console' = Append(console, what)
    /\ exitCode' = 0
    /\ pc' = "exit"
    /\ UNCHANGED <<overwriteInputFile, copied, good, consumed, line, mangledLine,
                   lineIndex, functionNameStart, isGZUnknownClass, out, what>>
    /\ UNCHANGED normVars

Init ==
    /\ IdleFile
    /\ IdleNormalizer
    /\ pc = "main"
    /\ line = << >>
    /\ mangledLine = << >>

Next ==
    \/ Usage
    \/ Start
    \/ SkipBlankLine
    \/ ThrowMalformedLine
    \/ DemangleFails
    \/ FirstLineWithoutClass
    \/ FirstLineUnknownInterface
    \/ FirstLineClass
    \/ SkipUnknownInterfaceMember
    \/ WriteMember
    \/ ThrowOutOfRange
    \/ EndOfInput
    \/ Return
    \/ Catch

Spec == Init /\ [][Next]_vars

----------------------------------------------------------------------------
(* Claims about the type normalizer, checked under SpecNormalize. *)

\* from occurs in s at position p as a whole word: preceded by a space or
\* '(' and followed by ',', ')', a space or the end of the string.
OccursAsWholeWord(s, from, p) ==
    /\ p > 0
    /\ p + Len(from) <= Len(s)
    /\ SubSeq(s, p + 1, p + Len(from)) = from
    /\ s[p] \in {" ", "("}
    /\ \/ p + Len(from) = Len(s)
       \/ s[p + Len(from) + 1] \in {",", ")", " "}

\* C3: once GetDemangledLine has applied every substitution, no `from` token
\* is left in the result as a whole word.
C3_NoWholeWordLeft ==
    (pc = "normalize" /\ pass = 1 /\ item = NumSubstitutions + 1) =>
        \A i \in 1..NumSubstitutions : \A p \in 0..Len(str) :
            ~OccursAsWholeWord(str, ParameterSubstitutions[i][1], p)

\* C4: a match is replaced only when it is a whole word: the character before
\* it is a space or '(' (or `from` starts with a space) and the character
\* right after it is ',', ')', a space or the end of the string.
C4_ReplacedOnlyWholeWords ==
    replaced.at # NPOS =>
        LET s == replaced.in
            p == replaced.at
            from == replaced.from
            after == p + Len(from)
        IN  /\ (s[p] \in {" ", "("} \/ from[1] = " ")
            /\ (after = Len(s) \/ s[after + 1] \in {",", ")", " "})

\* C9: normalizing the normalizer's own result leaves it unchanged.
C9_NormalizeIdempotent ==
    pc = "normalized" => str = firstResult

\* A run whose first normalization rewrote the signature and whose second
\* normalization has finished.
C9_Witness ==
    /\ pc = "normalized"
    /\ firstResult # demangled
    /\ str = firstResult

----------------------------------------------------------------------------
(* Claims about the line classifier, checked under SpecClassify. *)

Digits == {"0", "1", "2", "3", "4", "5", "6", "7", "8", "9"}

\* C8: a line "__thunk_" <digits> "_" <rest> hands exactly <rest> to the
\* demangler, and a line "__thunk_" <tail> whose tail holds no underscore
\* throws instead.
C8_ThunkPrefixStripped ==
    (pc \in {"classified", "threw"} /\ StartsWith(line, ThunkPrefix)) =>
        LET tail == Substr(line, Len(ThunkPrefix))
        IN  /\ \A k \in 1..Len(tail) :
                 (/\ k < Len(tail)
                  /\ \A i \in 1..k : tail[i] \in Digits
                  /\ tail[k + 1] = "_")
                 => (/\ pc = "classified"
                     /\ mangledLine = SubSeq(tail, k + 2, Len(tail)))
            /\ (\A i \in 1..Len(tail) : tail[i] # "_") => pc = "threw"

\* A thunk line with a two-digit number whose function name holds an
\* underscore has been stripped.
C8_Witness ==
    /\ pc = "classified"
    /\ line = ThunkPrefix \o <<"4","4","_","A","_">>
    /\ mangledLine = <<"A","_">>

----------------------------------------------------------------------------
(* Claims about DemangleInputFile and main, checked under Spec. *)

\* The positions of the non-blank lines read so far.
NonBlankPositions == {i \in 1..Len(consumed) : consumed[i] # << >>}

\* The first non-blank line read so far, once there is one.
FirstProcessedLine ==
    consumed[CHOOSE i \in NonBlankPositions : \A j \in NonBlankPositions : i <= j]

\* The normalized signature of a line the loop got past.
SignatureOf(l) == GetDemangledLine(ClassifyLine(l).ident, NUL)

\* The part of a signature before its "::" and the part after it.
ClassNameOf(sig) == SubstrN(sig, 0, Find(sig, <<":",":">>, 0))

MethodOf(sig) == Substr(sig, Find(sig, <<":",":">>, 0) + 2)

IsMemberDeclaration(l) ==
    /\ StartsWith(l, <<" "," "," "," ","v","i","r","t","u","a","l"," ","v","o","i","d","*"," ">>)
    /\ Len(l) >= Len(<<" "," "," "," ","v","i","r","t","u","a","l"," ","v","o","i","d","*"," "," ","="," ","0",";">>)
    /\ SubSeq(l, Len(l) - 4, Len(l)) = <<" ","="," ","0",";">>

MemberCount == Cardinality({i \in 1..Len(out) : IsMemberDeclaration(out[i])})

\* C1: a blank line does not advance lineIndex: while the loop runs,
\* lineIndex is the number of non-blank lines read, so that the first
\* non-blank line is the one processed with lineIndex = 0.
C1_BlankLinesDoNotAdvanceLineIndex ==
    pc = "loop" => lineIndex = Cardinality(NonBlankPositions)

\* C2: for an unknown-interface class, the first three non-blank lines give
\* no member declaration and every later non-blank line gives exactly one,
\* whatever blank lines the input holds.
C2_FirstThreeProcessedLinesSuppressed ==
    (pc = "loop" /\ isGZUnknownClass) =>
        MemberCount = IF Cardinality(NonBlankPositions) > 3
                      THEN Cardinality(NonBlankPositions) - 3
                      ELSE 0

\* C5: when classifying or demangling a line fails, main prints the message
\* and exits with a non-zero status.
C5_ErrorExitsWithFailureStatus ==
    (pc = "exit" /\ what # "") =>
        /\ console = <<what>>
        /\ exitCode # 0

\* C6: the header of an unknown-interface class names the interface: "cRZ"
\* at the start of the class name becomes "cIGZ", any other leading "c"
\* becomes "cI", and the rest of the name is kept.
C6_InterfaceNameDerived ==
    isGZUnknownClass =>
        LET className == ClassNameOf(SignatureOf(FirstProcessedLine))
            rest(n) == SubSeq(className, n + 1, Len(className))
            header(name) == <<"c","l","a","s","s"," ">> \o name \o <<" ",":"," ","p","u","b","l","i","c"," ","c","I","G","Z","U","n","k","n","o","w","n">>
        IN  /\ Len(out) >= 3
            /\ StartsWith(className, <<"c","R","Z">>) => out[3] = header(<<"c","I","G","Z">> \o rest(3))
            /\ (StartsWith(className, <<"c">>) /\ ~StartsWith(className, <<"c","R","Z">>))
                   => out[3] = header(<<"c","I">> \o rest(1))

\* The header of the interface of cRZApp has been written.
C6_Witness ==
    /\ isGZUnknownClass
    /\ FirstProcessedLine =
           <<"v","i","r","t","u","a","l"," ","b","o","o","l"," ","A","C","6","c","R","Z","A","p","p","1","4","Q","u","e","r","y","I","n","t","e","r","f","a","c","e","F","U","l","P","P","v","(","u","n","s","i","g","n","e","d"," ","l","o","n","g",","," ","v","o","i","d"," ","*","*",")">>
    /\ out[3] = <<"c","l","a","s","s"," ","c","I","G","Z","A","p","p"," ",":"," ","p","u","b","l","i","c"," ","c","I","G","Z","U","n","k","n","o","w","n">>

\* The header of the interface of cSC3App has been written.
C6_WitnessOtherClass ==
    /\ isGZUnknownClass
    /\ FirstProcessedLine = <<"A","C","6","c","S","C","3","A","p","p","1","4","Q","u","e","r","y","I","n","t","e","r","f","a","c","e","F","U","l","P","P","v">>
    /\ out[3] = <<"c","l","a","s","s"," ","c","I","S","C","3","A","p","p"," ",":"," ","p","u","b","l","i","c"," ","c","I","G","Z","U","n","k","n","o","w","n">>

\* C7: when the first non-blank line is <Class>::<method> for a method other
\* than QueryInterface(uint32_t, void**), the output starts with
\* "class <Class>", "{", "public:" and the member of that line, with no
\* include directive, and every non-blank line gives one member declaration.
C7_PlainClassHeaderAndMember ==
    (/\ pc = "loop"
     /\ NonBlankPositions # {}
     /\ Find(SignatureOf(FirstProcessedLine), <<":",":">>, 0) # NPOS
     /\ MethodOf(SignatureOf(FirstProcessedLine)) # QueryInterfaceSignature) =>
        LET sig == SignatureOf(FirstProcessedLine)
        IN  /\ Len(out) >= 4
            /\ out[1] = <<"c","l","a","s","s"," ">> \o ClassNameOf(sig)
            /\ out[2] = <<"{">>
            /\ out[3] = <<"p","u","b","l","i","c",":">>
            /\ out[4] = <<" "," "," "," ","v","i","r","t","u","a","l"," ","v","o","i","d","*"," ">> \o MethodOf(sig) \o <<" ","="," ","0",";">>
            /\ MemberCount = Cardinality(NonBlankPositions)

\* The lines of an interface declaration after the optional include directive.
DeclarationBody ==
    IF Len(out) >= 2 /\ out[1] = <<"#","i","n","c","l","u","d","e"," ","\"","c","I","G","Z","U","n","k","n","o","w","n",".","h","\"">>
    THEN SubSeq(out, 3, Len(out))
    ELSE out

\* C10: whenever DemangleInputFile returns, the output is an interface
\* declaration: an optional include directive, one class header, "{",
\* "public:", the member declarations and one closing brace as the last line.
C10_OutputIsInterfaceDeclaration ==
    pc = "return" =>
        LET body == DeclarationBody
        IN  /\ Len(body) >= 4
            /\ StartsWith(body[1], <<"c","l","a","s","s"," ">>)
            /\ body[2] = <<"{">>
            /\ body[3] = <<"p","u","b","l","i","c",":">>
            /\ \A i \in 4..(Len(body) - 1) : IsMemberDeclaration(body[i])
            /\ body[Len(body)] = <<"}",";">>

====
